---- MODULE Spec2Model ----
(***************************************************************************)
(* The agentic tool-use loop of the SQLite assistant, as implemented twice *)
(* in the repository:                                                      *)
(*   - src/app.py         Chat.process_query behind the FastAPI /chat      *)
(*                        endpoint (one process-wide Chat object, requests *)
(*                        interleave at every await);                      *)
(*   - src/mcp_client.py  SQLiteAssistantApp.process_query behind the      *)
(*                        Streamlit page (one query at a time, a run-local *)
(*                        message list).                                   *)
(* A behaviour is a behaviour of one of the two programs: `program` is     *)
(* chosen in Init and never changes.                                        *)
(*                                                                         *)
(* Strings are sequences of characters/tokens, so that "+", strip() and    *)
(* replace() are computed as Python computes them.                         *)
(***************************************************************************)
EXTENDS Integers, Sequences, FiniteSets, TLC

VARIABLES
    program,            \* "app" (src/app.py), "client" (src/mcp_client.py) or
                        \* "server" (src/mcp_server.py)
    server,             \* the tool server: database.db and its latest query_data call
    session,            \* app.state.session: "starting", "ready" or "absent"
    messages,           \* chat.messages, the process-wide transcript of app.py
    stored,             \* st.session_state.messages of the Streamlit client
    last_query_result,  \* st.session_state.last_query_result
    run,                \* per request: the locals of process_query
    obs                 \* per request: what an observer of its calls has seen

vars == <<program, server, session, messages, stored, last_query_result, run, obs>>

(***************************************************************************)
(* Bounds of the model.                                                    *)
(***************************************************************************)
MaxRuns == 2        \* requests served (app: possibly at the same time)
MaxTurns == 5       \* turns a transcript holds before the services stop answering
MaxRows == 2        \* rows database.db holds

Runs == 1..MaxRuns

(***************************************************************************)
(* Inputs.                                                                  *)
(***************************************************************************)
Queries == { <<"q">> }

Catalog == <<[name |-> "query_data", description |-> "", input_schema |-> "sql"]>>

\* response.tools of the list_tools call of request r: the tools the server
\* advertises at that time (the catalog may change from request to request).
ListTools(r) ==
    [k \in 1..Len(Catalog) |->
        [name |-> Catalog[k].name, description |-> ToString(r),
         inputSchema |-> Catalog[k].input_schema]]

\* available_tools = [{"name": ..., "description": ..., "input_schema": tool.inputSchema} ...]
AvailableTools(tools) ==
    [k \in 1..Len(tools) |->
        [name |-> tools[k].name, description |-> tools[k].description,
         input_schema |-> tools[k].inputSchema]]

\* messages.create if it were sent without the catalog in later rounds.
RequestTools_first_round_only(available_tools, ncalls) ==
    IF ncalls = 0 THEN available_tools ELSE <<>>

\* tools=available_tools, in the request of model call number ncalls + 1
RequestTools(available_tools, ncalls) == available_tools

Text(s) == [type |-> "text", text |-> s]

ToolUse(t) == [type |-> "tool_use", id |-> t, name |-> "query_data", input |-> "sql"]

Other == [type |-> "thinking"]

\* The content lists the model service may answer with.
Responses ==
    { <<Text(<<"a">>)>>,
      <<Text(<<" ">>), Text(<<"b">>)>>,
      <<Other>>,
      <<ToolUse("t1")>>,
      <<ToolUse("t1"), Text(<<"a">>)>>,
      <<Text(<<" ">>), ToolUse("t1"), ToolUse("t2")>> }

IsToolUse(c) == c.type = "tool_use"

HasToolUse(content) == \E k \in 1..Len(content) : IsToolUse(content[k])

\* The loop has no round cap and a transcript no size limit: the model is
\* kept finite by the services answering only while the transcripts hold
\* fewer than MaxTurns turns altogether.
RECURSIVE TurnsOf(_, _)
TurnsOf(locals, n) ==
    IF n = 0 THEN 0 ELSE Len(locals[n].messages) + TurnsOf(locals, n - 1)

TextContent(s) == [type |-> "text", text |-> s]

ImageContent == [type |-> "image"]

\* The payloads (result.content) a call_tool may return.
ToolPayloads ==
    { <<TextContent(<<"4", "2">>)>>,
      <<TextContent(<<" ", "7", "NUL">>)>>,
      <<ImageContent>>,
      <<>> }

\* str(e) of the exceptions the collaborators raise.
ListToolsError == <<"tool server unavailable">>
ModelError == <<"model service error">>
ToolError == <<"tool call failed">>
IndexError == <<"list index out of range">>

(***************************************************************************)
(* Python string operations.                                               *)
(***************************************************************************)
IsSpace(c) == c \in {" ", "\n"}

RECURSIVE LStrip(_)
LStrip(s) ==
    IF s # <<>> /\ IsSpace(Head(s)) THEN LStrip(Tail(s)) ELSE s

RECURSIVE RStrip(_)
RStrip(s) ==
    IF s # <<>> /\ IsSpace(s[Len(s)]) THEN RStrip(SubSeq(s, 1, Len(s) - 1)) ELSE s

\* str.strip()
Strip(s) == RStrip(LStrip(s))

\* str.replace('\x00', '')
ReplaceNul(s) == SelectSeq(s, LAMBDA c : c # "NUL")

(***************************************************************************)
(* Turns of a transcript.  `run` is not part of the Python dict: it records *)
(* which request appended the turn.                                        *)
(***************************************************************************)
UserTurn(r, q) ==
    [role |-> "user", content |-> <<[type |-> "str", text |-> q]>>, run |-> r]

AssistantTurn(r, content) ==
    [role |-> "assistant", content |-> content, run |-> r]

ToolResult(t, text) ==
    [type |-> "tool_result", tool_use_id |-> t, content |-> text]

ToolResultTurn(r, results) ==
    [role |-> "user", content |-> results, run |-> r]

\* getattr(result.content[0], "text", ""), for a non-empty payload
ResultText(payload) ==
    IF payload[1].type = "text" THEN payload[1].text ELSE <<>>

(***************************************************************************)
(* The for-loop over res.content of app.py.                                *)
(***************************************************************************)
TextItems(content) == SelectSeq(content, LAMBDA c : c.type = "text")

ToolUses(content) == SelectSeq(content, IsToolUse)

RECURSIVE JoinTexts(_)
JoinTexts(texts) ==
    IF texts = <<>> THEN <<>>
    ELSE Head(texts).text \o <<"\n">> \o JoinTexts(Tail(texts))

\* "content": assistant_message_content + tool_uses
ChatAssistantContent(content) == TextItems(content) \o ToolUses(content)

\* f"Error during Claude + MCP query: {str(e)}"
ErrorPrefix == "Error during Claude + MCP query: "

ErrorResponse(e) == <<ErrorPrefix>> \o e

\* f"[Fallback] Echo: {query.message}"
FallbackPrefix == "[Fallback] Echo: "

FallbackResponse(q) == <<FallbackPrefix>> \o q

(***************************************************************************)
(* Initial state: no request has arrived, the transcripts are empty.       *)
(***************************************************************************)
NoRun ==
    [pc |-> "idle", query |-> <<>>, available_tools |-> <<>>,
     final_response |-> <<>>, tool_uses |-> <<>>, i |-> 0,
     messages |-> <<>>, tool_results |-> <<>>,
     result |-> <<>>, errors |-> <<>>]

NoObs ==
    [nlist |-> 0, ncalls |-> 0, nbatches |-> 0, sent |-> <<>>, tools |-> <<>>, resps |-> <<>>, invoked |-> <<>>,
     failed |-> <<>>, empty |-> <<>>, textless |-> <<>>, outcome |-> "none",
     cause |-> "none", after |-> {}]

NoCall == [case |-> "none", rows |-> <<>>, kind |-> "none", value |-> <<>>]

Init ==
    /\ program \in {"app", "client", "server"}
    /\ server = [database |-> <<>>, call |-> NoCall]
    /\ session = IF program = "app" THEN "starting" ELSE "absent"
    /\ messages = <<>>
    /\ stored = <<>>
    /\ last_query_result = <<>>
    /\ run = [r \in Runs |-> NoRun]
    /\ obs = [r \in Runs |-> NoObs]

Room == Len(messages) + TurnsOf(run, MaxRuns) < MaxTurns

Set(r, new) == run' = [run EXCEPT ![r] = new]

See(r, new) == obs' = [obs EXCEPT ![r] = new]

\* Requests are numbered in order of arrival.
NextToArrive(r) ==
    /\ run[r].pc = "idle"
    /\ \A s \in Runs : s < r => run[s].pc # "idle"


\* An observer sees request r arrive: the requests served before it.
Arrived(o) == [o EXCEPT !.after = { s \in Runs : run[s].pc = "done" }]

\* An observer sees run r call session.list_tools.
ListToolsCalled(o) == [o EXCEPT !.nlist = @ + 1]

\* An observer sees run r pass `msgs` to anthropic_client.messages.create.
ModelCalled(o, msgs, available_tools) ==
    [o EXCEPT !.ncalls = @ + 1, !.sent = msgs,
              !.tools = RequestTools(available_tools, o.ncalls)]

\* An observer sees call_tool return, for tool_use `u`, a payload whose first
\* item has no text field.
PayloadSeen(o, u, payload) ==
    IF payload[1].type = "text" THEN o
    ELSE [o EXCEPT !.textless = Append(@, u.id)]

\* An observer sees run r leave the for loop over tool_uses.
BatchOver(o) == [o EXCEPT !.nbatches = @ + 1]

\* An observer sees run r pass tool_use `u` to session.call_tool.
ToolCalled(o, u) == [o EXCEPT !.invoked = Append(@, u.id)]

(***************************************************************************)
(* src/app.py: the FastAPI server.                                         *)
(***************************************************************************)

\* lifespan: the MCP session is established and stored in app.state, or the
\* start-up fails and the application serves without it.
lifespan ==
    /\ program = "app"
    /\ session = "starting"
    /\ session' \in {"ready", "absent"}
    /\ UNCHANGED <<program, server, messages, stored, last_query_result, run, obs>>

\* POST /chat with no session in app.state: the fallback echo.
chat_api_fallback(r, q) ==
    /\ Set(r, [NoRun EXCEPT !.pc = "done", !.query = q,
                            !.result = FallbackResponse(q)])
    /\ See(r, [Arrived(obs[r]) EXCEPT !.outcome = "echo"])

\* POST /chat with a session: process_query runs up to `await session.list_tools()`.
chat_api_process(r, q) ==
    /\ Set(r, [NoRun EXCEPT !.pc = "list_tools", !.query = q])
    /\ See(r, ListToolsCalled(Arrived(obs[r])))

chat_api(r, q) ==
    /\ program = "app"
    /\ session # "starting"
    /\ NextToArrive(r)
    /\ IF session = "ready" THEN chat_api_process(r, q) ELSE chat_api_fallback(r, q)
    /\ UNCHANGED <<program, server, session, messages, stored, last_query_result>>

\* Chat_except if the handler let the IndexError of an empty tool payload
\* escape: the request ends without a response string.
Chat_except_escapes(r, e, cause) ==
    /\ Set(r, [run[r] EXCEPT !.pc = "done",
                             !.result = IF cause = "payload" THEN <<>>
                                        ELSE ErrorResponse(e)])
    /\ See(r, [obs[r] EXCEPT !.outcome = "error", !.cause = cause])
    /\ UNCHANGED messages

\* Chat_except if the handler swallowed the exception and left the run
\* waiting for a response that never comes.
Chat_except_hangs(r, e, cause) ==
    /\ Set(r, [run[r] EXCEPT !.pc = "hung"])
    /\ See(r, [obs[r] EXCEPT !.cause = cause])
    /\ UNCHANGED messages

\* Chat_except if the handler discarded the transcript of the failed run.
Chat_except_discards(r, e, cause) ==
    /\ Set(r, [run[r] EXCEPT !.pc = "done", !.result = ErrorResponse(e)])
    /\ See(r, [obs[r] EXCEPT !.outcome = "error", !.cause = cause])
    /\ messages' = SelectSeq(messages, LAMBDA turn : turn.run # r)

\* except Exception as e: return the error string.  The transcript is left
\* as it is.
Chat_except(r, e, cause) ==
    /\ Set(r, [run[r] EXCEPT !.pc = "done", !.result = ErrorResponse(e)])
    /\ See(r, [obs[r] EXCEPT !.outcome = "error", !.cause = cause,
                             !.failed = IF cause = "call_tool"
                                        THEN Append(@, run[r].tool_uses[run[r].i].id)
                                        ELSE @,
                             !.empty = IF cause = "payload"
                                       THEN Append(@, run[r].tool_uses[run[r].i].id)
                                       ELSE @])
    /\ UNCHANGED messages

\* list_tools returned: the user turn is appended, final_response is reset
\* and the first model call is made.
Chat_list_tools_ok(r) ==
    /\ Room
    /\ messages' = Append(messages, UserTurn(r, run[r].query))
    /\ Set(r, [run[r] EXCEPT !.pc = "model",
                             !.available_tools = AvailableTools(ListTools(r)),
                             !.final_response = <<>>])
    /\ See(r, ModelCalled(obs[r], messages', AvailableTools(ListTools(r))))

\* Chat_list_tools_returns if a failed catalog fetch were swallowed and the
\* run went on with the model call.
Chat_list_tools_returns_swallowed(r) ==
    /\ program = "app"
    /\ run[r].pc = "list_tools"
    /\ \/ Chat_list_tools_ok(r)
       \/ /\ Room
          /\ messages' = Append(messages, UserTurn(r, run[r].query))
          /\ Set(r, [run[r] EXCEPT !.pc = "model"])
          /\ See(r, [ModelCalled(obs[r], messages', run[r].available_tools)
                        EXCEPT !.cause = "list_tools"])
    /\ UNCHANGED <<program, server, session, stored, last_query_result>>

Chat_list_tools_returns(r) ==
    /\ program = "app"
    /\ run[r].pc = "list_tools"
    /\ \/ Chat_list_tools_ok(r)
       \/ Chat_except(r, ListToolsError, "list_tools")
    /\ UNCHANGED <<program, server, session, stored, last_query_result>>

\* WhileTrue if the loop were capped at one round.
WhileTrue_capped(round) == round < 1

\* while True: the loop condition, whatever the number of rounds made
WhileTrue(round) == TRUE

\* LoopEnds if the loop also ended on a single tool request.
LoopEnds_single(tool_uses) == Len(tool_uses) <= 1

\* if not tool_uses: break
LoopEnds(tool_uses) == tool_uses = <<>>

\* final_response += content.text + "\n", for every text item in order
Accumulate(final_response, content) ==
    final_response \o JoinTexts(TextItems(content))

\* Chat_return without the strip().
Chat_return_unstripped(final_response) == final_response

\* return final_response.strip()
Chat_return(final_response) == Strip(final_response)

\* The model answered with `content`: the body of the while loop up to the
\* next await (the first call_tool) or to the return.
Chat_model_ok(r, content) ==
    LET tool_uses == ToolUses(content)
        final_response == Accumulate(run[r].final_response, content)
        seen == [obs[r] EXCEPT !.resps = Append(@, content), !.invoked = <<>>,
                               !.failed = <<>>, !.empty = <<>>,
                               !.textless = <<>>]
    IN  /\ Room
        /\ messages' = Append(messages, AssistantTurn(r, ChatAssistantContent(content)))
        /\ IF LoopEnds(tool_uses) \/ ~WhileTrue(Len(seen.resps))
           THEN /\ Set(r, [run[r] EXCEPT !.pc = "done", !.tool_uses = tool_uses,
                                         !.final_response = final_response,
                                         !.result = Chat_return(final_response)])
                /\ See(r, [seen EXCEPT !.outcome = "answer"])
           ELSE /\ Set(r, [run[r] EXCEPT !.pc = "tool", !.tool_uses = tool_uses,
                                         !.final_response = final_response,
                                         !.i = 1])
                /\ See(r, ToolCalled(seen, tool_uses[1]))

Chat_model_returns(r) ==
    /\ program = "app"
    /\ run[r].pc = "model"
    /\ \/ \E content \in Responses : Chat_model_ok(r, content)
       \/ Chat_except(r, ModelError, "model")
    /\ UNCHANGED <<program, server, session, stored, last_query_result>>

\* call_tool returned `payload` for tool_uses[i]: its result turn is appended;
\* then the next call_tool, or the next model call when the batch is over.
Chat_call_tool_ok(r, payload) ==
    LET tool_use == run[r].tool_uses[run[r].i]
        result_text == ResultText(payload)
        seen == PayloadSeen(obs[r], tool_use, payload)
    IN  /\ Room
        /\ messages' = Append(messages,
                ToolResultTurn(r, <<ToolResult(tool_use.id, result_text)>>))
        /\ IF run[r].i < Len(run[r].tool_uses)
           THEN /\ Set(r, [run[r] EXCEPT !.i = @ + 1])
                /\ See(r, ToolCalled(seen, run[r].tool_uses[run[r].i + 1]))
           ELSE /\ Set(r, [run[r] EXCEPT !.pc = "model"])
                /\ See(r, ModelCalled(BatchOver(seen), messages', run[r].available_tools))

Chat_call_tool_returns(r) ==
    /\ program = "app"
    /\ run[r].pc = "tool"
    /\ \/ \E payload \in ToolPayloads :
            IF payload = <<>>
            THEN Chat_except(r, IndexError, "payload")
            ELSE Chat_call_tool_ok(r, payload)
       \/ Chat_except(r, ToolError, "call_tool")
    /\ UNCHANGED <<program, server, session, stored, last_query_result>>

AppNext ==
    \/ lifespan
    \/ \E r \in Runs, q \in Queries : chat_api(r, q)
    \/ \E r \in Runs : Chat_list_tools_returns(r)
    \/ \E r \in Runs : Chat_model_returns(r)
    \/ \E r \in Runs : Chat_call_tool_returns(r)

(***************************************************************************)
(* src/mcp_client.py: the Streamlit page.  The script serves one query at  *)
(* a time (asyncio.run blocks until process_query is over).                *)
(***************************************************************************)

\* Client_run if the user turn were appended to the stored list itself
\* instead of to a new list.
Client_run_in_place(r, q) ==
    /\ program = "client"
    /\ NextToArrive(r)
    /\ \A s \in Runs : s < r => run[s].pc = "done"
    /\ Room
    /\ stored' = Append(stored, UserTurn(r, q))
    /\ Set(r, [NoRun EXCEPT !.pc = "list_tools", !.query = q,
                            !.messages = stored'])
    /\ See(r, ListToolsCalled(Arrived(obs[r])))
    /\ UNCHANGED <<program, server, session, messages, last_query_result>>

\* run(), `if query:` -- a session is opened and process_query runs up to
\* `await session.list_tools()`; the run-local list is the stored history
\* plus the new user turn.
Client_run(r, q) ==
    /\ program = "client"
    /\ NextToArrive(r)
    /\ \A s \in Runs : s < r => run[s].pc = "done"
    /\ Room
    /\ Set(r, [NoRun EXCEPT !.pc = "list_tools", !.query = q,
                            !.messages = stored \o <<UserTurn(r, q)>>])
    /\ See(r, ListToolsCalled(Arrived(obs[r])))
    /\ UNCHANGED <<program, server, session, messages, stored, last_query_result>>

\* The outer `except Exception as e`: st.error, and process_query returns.
Client_except(r, e, cause) ==
    /\ Set(r, [run[r] EXCEPT !.pc = "done",
                             !.errors = Append(@, <<"Query processing error: ">> \o e)])
    /\ See(r, [obs[r] EXCEPT !.outcome = "error", !.cause = cause])
    /\ UNCHANGED last_query_result

Client_list_tools_ok(r) ==
    /\ Set(r, [run[r] EXCEPT !.pc = "model",
                             !.available_tools = AvailableTools(ListTools(r))])
    /\ See(r, ModelCalled(obs[r], run[r].messages, AvailableTools(ListTools(r))))
    /\ UNCHANGED last_query_result

Client_list_tools_returns(r) ==
    /\ program = "client"
    /\ run[r].pc = "list_tools"
    /\ \/ Client_list_tools_ok(r)
       \/ Client_except(r, ListToolsError, "list_tools")
    /\ UNCHANGED <<program, server, session, messages, stored>>

\* assistant_message_content: the text and tool_use items, as dicts, in the
\* order of ai_response.content
ClientAssistantContent(content) ==
    SelectSeq(content, LAMBDA c : c.type \in {"text", "tool_use"})

\* st.session_state.last_query_result = content.text, for every text item
LastText(previous, content) ==
    LET texts == TextItems(content)
    IN  IF texts = <<>> THEN previous ELSE texts[Len(texts)].text

\* if not tool_uses: break
Client_LoopEnds(tool_uses) == tool_uses = <<>>

\* The model answered with `content`: the body of the while loop up to the
\* first call_tool or to the break.
Client_model_ok(r, content) ==
    LET tool_uses == ToolUses(content)
        transcript == Append(run[r].messages,
                             AssistantTurn(r, ClientAssistantContent(content)))
        seen == [obs[r] EXCEPT !.resps = Append(@, content), !.invoked = <<>>,
                               !.failed = <<>>, !.empty = <<>>,
                               !.textless = <<>>]
    IN  /\ Room
        /\ last_query_result' = LastText(last_query_result, content)
        /\ IF Client_LoopEnds(tool_uses) \/ ~WhileTrue(Len(seen.resps))
           THEN /\ Set(r, [run[r] EXCEPT !.pc = "done", !.messages = transcript,
                                         !.tool_uses = tool_uses])
                /\ See(r, [seen EXCEPT !.outcome = "answer"])
           ELSE /\ Set(r, [run[r] EXCEPT !.pc = "tool", !.messages = transcript,
                                         !.tool_uses = tool_uses,
                                         !.tool_results = <<>>, !.i = 1])
                /\ See(r, ToolCalled(seen, tool_uses[1]))

Client_model_returns(r) ==
    /\ program = "client"
    /\ run[r].pc = "model"
    /\ \/ \E content \in Responses : Client_model_ok(r, content)
       \/ Client_except(r, ModelError, "model")
    /\ UNCHANGED <<program, server, session, messages, stored>>

\* result_text.strip().replace('\x00', '')
ClientResultText(payload) == ReplaceNul(Strip(ResultText(payload)))

\* The end of one iteration of `for i, tool_use in enumerate(tool_uses)`:
\* the next call_tool, or, after the last one, the tool-result turn and the
\* next model call.
Client_next_tool(r, tool_results, errors, seen) ==
    IF run[r].i < Len(run[r].tool_uses)
    THEN /\ Set(r, [run[r] EXCEPT !.i = @ + 1, !.tool_results = tool_results,
                                  !.errors = errors])
         /\ See(r, ToolCalled(seen, run[r].tool_uses[run[r].i + 1]))
    ELSE LET transcript == Append(run[r].messages, ToolResultTurn(r, tool_results))
         IN  /\ Room
             /\ Set(r, [run[r] EXCEPT !.pc = "model", !.messages = transcript,
                                      !.tool_results = tool_results,
                                      !.errors = errors])
             /\ See(r, ModelCalled(BatchOver(seen), transcript, run[r].available_tools))

\* call_tool returned `payload` for tool_uses[i].
Client_call_tool_ok(r, payload) ==
    LET tool_use == run[r].tool_uses[run[r].i]
    IN  Client_next_tool(r,
            Append(run[r].tool_results,
                   ToolResult(tool_use.id, ClientResultText(payload))),
            run[r].errors, PayloadSeen(obs[r], tool_use, payload))

\* The inner `except Exception as tool_error`: st.error, and the loop goes on
\* without a result for tool_uses[i].
Client_tool_error(r, e, seen) ==
    Client_next_tool(r, run[r].tool_results,
        Append(run[r].errors, <<"Tool execution error: ">> \o e), seen)

Client_call_tool_returns(r) ==
    /\ program = "client"
    /\ run[r].pc = "tool"
    /\ \/ \E payload \in ToolPayloads :
            IF payload = <<>>
            THEN Client_tool_error(r, IndexError,
                    [obs[r] EXCEPT !.empty = Append(@, run[r].tool_uses[run[r].i].id)])
            ELSE Client_call_tool_ok(r, payload)
       \/ Client_tool_error(r, ToolError,
            [obs[r] EXCEPT !.failed = Append(@, run[r].tool_uses[run[r].i].id)])
    /\ UNCHANGED <<program, server, session, messages, stored, last_query_result>>

ClientNext ==
    \/ \E r \in Runs, q \in Queries : Client_run(r, q)
    \/ \E r \in Runs : Client_list_tools_returns(r)
    \/ \E r \in Runs : Client_model_returns(r)
    \/ \E r \in Runs : Client_call_tool_returns(r)

(***************************************************************************)
(* src/mcp_server.py: the tool server and its one tool, query_data.        *)
(* database.db is a table of one-column rows; a statement reads it, adds a *)
(* row, empties it, or is not valid SQL.                                   *)
(***************************************************************************)
Values == {1, 2}

Sqls ==
    {[op |-> "select", value |-> 0], [op |-> "delete", value |-> 0],
     [op |-> "invalid", value |-> 0]}
        \cup {[op |-> "insert", value |-> v] : v \in Values}

ConnectError == <<"unable to open database file">>

ExecuteError(sql) ==
    IF sql.op = "invalid" THEN <<"near \"", sql.op, "\": syntax error">>
    ELSE <<"database is locked">>

\* str(row) of a one-column row
RowStr(row) == <<"(", ToString(row), ",)">>

\* "\n".join(str(row) for row in rows)
RECURSIVE JoinRows(_)
JoinRows(rows) ==
    IF rows = <<>> THEN <<>>
    ELSE IF Len(rows) = 1 THEN RowStr(rows[1])
    ELSE RowStr(rows[1]) \o <<"\n">> \o JoinRows(Tail(rows))

SuccessMessage == <<"Query ran successfully.">>

SqlErrorPrefix == <<"SQL Error: ">>

\* return "\n".join(...) if rows else "... Query ran successfully."
Returned(rows) == IF rows # <<>> THEN JoinRows(rows) ELSE SuccessMessage

\* return f"... SQL Error: {e}"
SqlError(e) == SqlErrorPrefix \o e

\* cursor.execute(sql); rows = cursor.fetchall(); conn.commit(): the rows
\* fetched and the database after the commit
Execute(database, sql) ==
    IF sql.op = "select" THEN [rows |-> database, database |-> database]
    ELSE IF sql.op = "insert"
         THEN [rows |-> <<>>, database |-> Append(database, sql.value)]
    ELSE [rows |-> <<>>, database |-> <<>>]

\* The try block and its except clause: the value the function is about to
\* return, whether `conn` has been bound, and the database.
TryExcept(database, sql, connects, executes) ==
    IF ~connects
    THEN [case |-> "connect fails", conn |-> "unbound", rows |-> <<>>,
          value |-> SqlError(ConnectError), database |-> database]
    ELSE IF ~executes \/ sql.op = "invalid"
    THEN [case |-> "execute fails", conn |-> "open", rows |-> <<>>,
          value |-> SqlError(ExecuteError(sql)), database |-> database]
    ELSE LET done == Execute(database, sql)
         IN  [case |-> IF done.rows # <<>> THEN "rows" ELSE "no rows",
              conn |-> "open", rows |-> done.rows,
              value |-> Returned(done.rows), database |-> done.database]

\* finally: conn.close() -- with `conn` unbound the name lookup raises
\* UnboundLocalError, which replaces the pending return.
Finally(pending) ==
    IF pending.conn = "unbound"
    THEN [case |-> pending.case, rows |-> pending.rows, kind |-> "raise",
          value |-> <<"UnboundLocalError">>]
    ELSE [case |-> pending.case, rows |-> pending.rows, kind |-> "return",
          value |-> pending.value]

\* One call of the tool.
query_data(sql) ==
    /\ program = "server"
    /\ sql.op = "insert" => Len(server.database) < MaxRows
    /\ \E connects \in BOOLEAN, executes \in BOOLEAN :
           LET pending == TryExcept(server.database, sql, connects, executes)
           IN  server' = [database |-> pending.database, call |-> Finally(pending)]
    /\ UNCHANGED <<program, session, messages, stored, last_query_result, run, obs>>

ServerNext == \E sql \in Sqls : query_data(sql)

Next == AppNext \/ ClientNext \/ ServerNext

Spec == Init /\ [][Next]_vars

(***************************************************************************)
(* Vocabulary of the properties.                                           *)
(***************************************************************************)
\* The transcript run r works on.
Transcript(r) == IF program = "app" THEN messages ELSE run[r].messages

IsPrefix(s, t) == Len(s) <= Len(t) /\ SubSeq(t, 1, Len(s)) = s

Ids(tool_uses) == [k \in 1..Len(tool_uses) |-> tool_uses[k].id]

Answered(r) == run[r].pc = "done" /\ obs[r].outcome = "answer"

\* The position of run r's latest assistant turn in transcript t (0: none).
LastAssistant(t, r) ==
    LET at == { k \in 1..Len(t) : t[k].role = "assistant" /\ t[k].run = r }
    IN  IF at = {} THEN 0 ELSE CHOOSE k \in at : \A j \in at : j <= k

RECURSIVE Flatten(_)
Flatten(seqs) ==
    IF seqs = <<>> THEN <<>> ELSE Head(seqs) \o Flatten(Tail(seqs))

\* The tool results run r has recorded for its current round: those of its
\* turns after its latest assistant turn, and (client) those collected for
\* the batch turn not yet appended.
RoundResults(r) ==
    LET t == Transcript(r)
        from == LastAssistant(t, r)
        mine == SelectSeq(SubSeq(t, from + 1, Len(t)),
                          LAMBDA turn : turn.run = r /\ turn.role = "user")
        recorded == SelectSeq(Flatten([k \in 1..Len(mine) |-> mine[k].content]),
                              LAMBDA c : c.type = "tool_result")
    IN  IF program = "client" /\ run[r].pc = "tool"
        THEN recorded \o run[r].tool_results
        ELSE recorded

ResultIds(results) == [k \in 1..Len(results) |-> results[k].tool_use_id]

\* C1: a call_tool that raises never aborts the run: the run does not end by
\* it, once the batch is over the model has been called again, and a tool
\* result for the failing request is recorded in the round.
C1_ToolFailureNeverAborts ==
    \A r \in Runs :
        \A k \in 1..Len(obs[r].failed) :
            /\ obs[r].cause # "call_tool"
            /\ run[r].pc # "tool" => obs[r].ncalls = Len(obs[r].resps) + 1
            /\ \E j \in 1..Len(RoundResults(r)) :
                   RoundResults(r)[j].tool_use_id = obs[r].failed[k]

\* C2: a run stops at the first round whose response holds no tool_use: every
\* earlier response of the run holds one, the run answers exactly when its
\* latest response holds none, and then it has made no model call and no
\* tool call after that response.
C2_StopsAtFirstRoundWithoutToolUse ==
    \A r \in Runs :
        LET resps == obs[r].resps
            n == Len(resps)
        IN  /\ \A k \in 1..(n - 1) : HasToolUse(resps[k])
            /\ (n > 0 /\ ~HasToolUse(resps[n])) =>
                   /\ Answered(r)
                   /\ obs[r].ncalls = n
                   /\ obs[r].invoked = <<>>
            /\ Answered(r) => n > 0 /\ ~HasToolUse(resps[n])

\* A run that answered in its second round, after a round with tool requests.
C2_Witness ==
    \E r \in Runs :
        /\ Answered(r)
        /\ Len(obs[r].resps) = 2
        /\ HasToolUse(obs[r].resps[1])

\* Every text fragment of a list of content items, each followed by a newline.
RECURSIVE EmittedText(_)
EmittedText(items) ==
    IF items = <<>> THEN <<>>
    ELSE (IF Head(items).type = "text" THEN Head(items).text \o <<"\n">> ELSE <<>>)
         \o EmittedText(Tail(items))

Trimmed(s) == s = <<>> \/ (~IsSpace(s[1]) /\ ~IsSpace(s[Len(s)]))

\* C3: the value Chat.process_query returns on success is the text the model
\* emitted in this run, over all rounds in order, each fragment followed by a
\* newline, with leading and trailing whitespace removed.
C3_AnswerIsEmittedText ==
    \A r \in Runs :
        (program = "app" /\ Answered(r)) =>
            /\ run[r].result = Strip(EmittedText(Flatten(obs[r].resps)))
            /\ Trimmed(run[r].result)

\* A run of app.py that answered after two rounds with text in both, and
\* whose answer lost whitespace to the trimming.
C3_Witness ==
    \E r \in Runs :
        /\ program = "app"
        /\ Answered(r)
        /\ Len(obs[r].resps) = 2
        /\ \A k \in 1..2 : TextItems(obs[r].resps[k]) # <<>>
        /\ run[r].result # run[r].final_response
        /\ Len(run[r].result) >= 3

\* The tool requests of run r's latest response.
Requested(r) ==
    IF obs[r].resps = <<>> THEN <<>>
    ELSE Ids(ToolUses(obs[r].resps[Len(obs[r].resps)]))

\* C4: the tools a round requests are invoked in the order requested, one
\* after the other, and once the batch is over (the run waits for no tool)
\* all of them have been invoked and the results recorded for the round
\* carry their ids in the same order.  Stated for the rounds in which every
\* payload returned had content.
C4_ResultsMatchRequestsInOrder ==
    \A r \in Runs :
        obs[r].empty = <<>> =>
            /\ IsPrefix(obs[r].invoked, Requested(r))
            /\ run[r].pc = "tool" =>
                   Len(obs[r].invoked) = Len(RoundResults(r)) + Len(obs[r].failed) + 1
            /\ run[r].pc # "tool" =>
                   /\ obs[r].invoked = Requested(r)
                   /\ ResultIds(RoundResults(r)) = Requested(r)

\* C5: when requests are served one after another, the first model call of
\* every run carries exactly one turn, the user text of that request.
C5_EveryRunStartsEmpty ==
    \A r \in Runs :
        (obs[r].ncalls = 1
            /\ \A s \in Runs \ {r} : s \in obs[r].after \/ run[s].pc = "idle") =>
            obs[r].sent = <<UserTurn(r, run[r].query)>>

InProgress(r) == run[r].pc \notin {"idle", "done"}

\* C6: while two requests are in progress, the messages one of them sends to
\* the model hold no turn appended by the other.
C6_NoSharedTranscript ==
    \A r, s \in Runs :
        (r # s /\ InProgress(r) /\ InProgress(s)) =>
            \A k \in 1..Len(obs[r].sent) : obs[r].sent[k].run # s

\* C7: a run whose model call raised made no further model call, answered
\* with exactly the error response, and none of its turns is in the messages
\* a request served after it sends to the model.
C7_ModelErrorDiscardsRun ==
    \A r \in Runs :
        obs[r].cause = "model" =>
            /\ run[r].pc = "done"
            /\ obs[r].outcome = "error"
            /\ obs[r].ncalls = Len(obs[r].resps) + 1
            /\ program = "app" => run[r].result = ErrorResponse(ModelError)
            /\ \A s \in Runs :
                   r \in obs[s].after =>
                       \A k \in 1..Len(obs[s].sent) : obs[s].sent[k].run # r

TurnsBy(r) == { k \in 1..Len(Transcript(r)) : Transcript(r)[k].run = r }

\* C8: a run whose list_tools failed has ended with an error, has made no
\* model call and no tool call, and has appended at most its user turn.
C8_CatalogFailureEndsRun ==
    \A r \in Runs :
        obs[r].cause = "list_tools" =>
            /\ run[r].pc = "done"
            /\ obs[r].outcome = "error"
            /\ obs[r].ncalls = 0
            /\ obs[r].resps = <<>>
            /\ obs[r].invoked = <<>>
            /\ program = "app" => run[r].result = ErrorResponse(ListToolsError)
            /\ program = "client" =>
                   run[r].errors = << <<"Query processing error: ">> \o ListToolsError >>
            /\ Cardinality(TurnsBy(r)) <= 1
            /\ \A k \in TurnsBy(r) : Transcript(r)[k] = UserTurn(r, run[r].query)

\* A run whose catalog fetch failed while another request has a transcript.
C8_Witness ==
    \E r, s \in Runs :
        /\ obs[r].cause = "list_tools"
        /\ run[r].pc = "done"
        /\ s # r
        /\ Transcript(s) # <<>>

\* C9, as claimed: every hard failure of a /chat request (missing session
\* included) is answered with a descriptive error string, never with an echo
\* of the query.
C9_HardFailureGivesErrorString ==
    \A r \in Runs :
        (program = "app" /\ run[r].pc = "done" /\ obs[r].outcome # "answer") =>
            /\ run[r].result # <<>>
            /\ Head(run[r].result) = ErrorPrefix
            /\ run[r].result # FallbackResponse(run[r].query)

ExceptionOf(cause) ==
    CASE cause = "list_tools" -> ListToolsError
      [] cause = "model" -> ModelError
      [] cause = "call_tool" -> ToolError
      [] cause = "payload" -> IndexError

\* C9, amended: every failure inside process_query ends the request with the
\* error string of its exception; without a session the response is the
\* fallback echo of the query; otherwise it is the answer.
C9_FailureInsideRunGivesErrorString ==
    \A r \in Runs :
        program = "app" =>
            /\ obs[r].cause # "none" => (run[r].pc = "done" /\ obs[r].outcome = "error")
            /\ run[r].pc = "done" =>
                   /\ obs[r].outcome \in {"answer", "error", "echo"}
                   /\ obs[r].outcome = "error" =>
                          run[r].result = ErrorResponse(ExceptionOf(obs[r].cause))
                   /\ obs[r].outcome = "echo" <=> session = "absent"
                   /\ obs[r].outcome = "echo" =>
                          run[r].result = <<FallbackPrefix>> \o run[r].query
                   /\ obs[r].outcome = "answer" =>
                          (run[r].result = <<>>
                              \/ Head(run[r].result) \notin {ErrorPrefix, FallbackPrefix})

\* A request that ended on the IndexError of an empty tool payload, in the
\* second position of its batch.
C9_Witness ==
    \E r \in Runs :
        /\ program = "app"
        /\ run[r].pc = "done"
        /\ obs[r].cause = "payload"
        /\ run[r].i = 2
        /\ run[r].result = ErrorResponse(IndexError)

\* C10: every step leaves every transcript a prefix of its new value, longer
\* by at most one turn.
C10_AppendOnly ==
    [][\A r \in Runs :
          /\ IsPrefix(Transcript(r), Transcript(r)')
          /\ Len(Transcript(r)') <= Len(Transcript(r)) + 1]_vars

\* A transcript of three turns or more after a run that ended on an error
\* and a run that is still going on.
C10_Witness ==
    \E r, s \in Runs :
        /\ obs[r].outcome = "error"
        /\ InProgress(s)
        /\ Len(Transcript(s)) >= 3

(***************************************************************************)
(* Fairness: every call a run awaits (list_tools, the model, call_tool)    *)
(* eventually returns or raises.                                           *)
(***************************************************************************)
\* The step that ends the await run r is suspended at.
Resumes(r) ==
    \/ Chat_list_tools_returns(r)
    \/ Chat_model_returns(r)
    \/ Chat_call_tool_returns(r)
    \/ Client_list_tools_returns(r)
    \/ Client_model_returns(r)
    \/ Client_call_tool_returns(r)

FairSpec == Spec /\ \A r \in Runs : WF_vars(Resumes(r))

\* C11: every run that has entered process_query eventually ends, with a
\* final answer or with an explicit error; it does not stay forever waiting
\* for the model or for a tool.  The model stops asking for tools at the
\* latest when the transcripts have reached MaxTurns turns; a run that has
\* been asked for tools up to there is excused.
C11_EveryRunTerminates ==
    \A r \in Runs :
        InProgress(r) ~> \/ run[r].pc = "done" /\ obs[r].outcome \in {"answer", "error"}
                         \/ ~Room

\* A run that ended with its answer after a round of tool calls.
C11_Witness ==
    \E r \in Runs :
        /\ Answered(r)
        /\ Len(obs[r].resps) = 2
        /\ run[r].tool_uses = <<>>
        /\ obs[r].ncalls = 2

\* The turns run r has appended after its latest assistant turn.
TurnsAfterAssistant(r) ==
    LET t == Transcript(r)
    IN  SelectSeq(SubSeq(t, LastAssistant(t, r) + 1, Len(t)),
                  LAMBDA turn : turn.run = r)

\* C12: when a round requested tools and every call returned a payload, the
\* run has appended, between the round's assistant turn and the next model
\* call, exactly one tool-result turn, and it holds the results of all the
\* requests of the round.
C12_OneResultTurnPerRound ==
    \A r \in Runs :
        (/\ run[r].pc = "model"
         /\ obs[r].resps # <<>>
         /\ obs[r].failed = <<>>
         /\ obs[r].empty = <<>>) =>
            LET after == TurnsAfterAssistant(r)
            IN  /\ Len(after) = 1
                /\ after[1].role = "user"
                /\ ResultIds(after[1].content) = Requested(r)

\* C13: the assistant turn a run appends for a response holds the text and
\* tool_use items of the response in the order the service returned them,
\* none moved, dropped or repeated.
C13_AssistantTurnKeepsOrder ==
    \A r \in Runs :
        obs[r].resps # <<>> =>
            LET t == Transcript(r)
                response == obs[r].resps[Len(obs[r].resps)]
            IN  /\ LastAssistant(t, r) > 0
                /\ t[LastAssistant(t, r)].content =
                       SelectSeq(response, LAMBDA c : c.type \in {"text", "tool_use"})

\* The calls of run r's current round that returned without extractable
\* text: an empty content list, or a first item with no text field.
WithoutText(r) == obs[r].empty \o obs[r].textless

\* C14: a call_tool that returns without extractable text puts a tool result
\* with the empty string in the round, the run does not end by it, and once
\* the batch is over every tool of the round has been invoked and the model
\* has been called again (in a round where no call_tool raised).
C14_NoTextGivesEmptyResult ==
    \A r \in Runs :
        \A k \in 1..Len(WithoutText(r)) :
            obs[r].failed = <<>> =>
            /\ obs[r].cause # "payload"
            /\ \E j \in 1..Len(RoundResults(r)) :
                   /\ RoundResults(r)[j].tool_use_id = WithoutText(r)[k]
                   /\ RoundResults(r)[j].content = <<>>
            /\ run[r].pc # "tool" =>
                   /\ obs[r].invoked = Requested(r)
                   /\ obs[r].ncalls = Len(obs[r].resps) + 1

\* The requests that have a call pending on the session of app.state
\* (list_tools or call_tool awaited).
OnSession == { r \in Runs : program = "app" /\ run[r].pc \in {"list_tools", "tool"} }

\* C15: the session stored in app.state.session is used by at most one run
\* at a time.
C15_SessionUsedByOneRun == Cardinality(OnSession) <= 1

\* C16: a run fetches the catalog exactly once; while the fetch is pending
\* the run has made no model call; and every model request of the run carries
\* the catalog that fetch returned.
C16_CatalogFetchedOnce ==
    \A r \in Runs :
        /\ obs[r].nlist <= 1
        /\ run[r].pc = "list_tools" => obs[r].ncalls = 0
        /\ obs[r].ncalls >= 1 =>
               /\ obs[r].nlist = 1
               /\ obs[r].tools = AvailableTools(ListTools(r))
               /\ obs[r].tools = run[r].available_tools

\* A run in its second round, after another run fetched another catalog.
C16_Witness ==
    \E r, s \in Runs :
        /\ obs[r].ncalls = 2
        /\ obs[s].ncalls >= 1
        /\ obs[s].tools # obs[r].tools

\* Run r has received a response, and every response it has received asks
\* for a tool.
AlwaysAsked(r) ==
    /\ obs[r].resps # <<>>
    /\ \A k \in 1..Len(obs[r].resps) : HasToolUse(obs[r].resps[k])

\* No call of run r has failed.
NoFailure(r) == obs[r].cause = "none" /\ run[r].errors = <<>>

\* C17: the loop has no cap on rounds.  A run without a failed call that
\* answers after n rounds with tool requests and one without has made exactly
\* n + 1 model calls and n tool batches; and while every response asks for a
\* tool the run does not end.
C17_NoRoundCap ==
    \A r \in Runs :
        NoFailure(r) =>
            LET resps == obs[r].resps
                n == Len(resps) - 1
            IN  /\ Answered(r) =>
                       /\ \A k \in 1..n : HasToolUse(resps[k])
                       /\ ~HasToolUse(resps[n + 1])
                       /\ obs[r].ncalls = n + 1
                       /\ obs[r].nbatches = n
                /\ AlwaysAsked(r) => run[r].pc # "done"

\* A run that answered after one round of two tool calls and one round
\* without.
C17_Witness ==
    \E r \in Runs :
        /\ Answered(r)
        /\ NoFailure(r)
        /\ Len(obs[r].resps) = 2
        /\ Len(ToolUses(obs[r].resps[1])) = 2
        /\ obs[r].nbatches = 1

\* C18: every call of query_data returns a string and does not raise: the
\* joined rows when the statement gave rows, the success message when it
\* gave none, and an error message when the connection or the statement
\* failed.
C18_QueryDataNeverRaises ==
    server.call.case # "none" =>
        /\ server.call.kind = "return"
        /\ server.call.case = "rows" => server.call.value = JoinRows(server.call.rows)
        /\ server.call.case = "no rows" => server.call.value = SuccessMessage
        /\ server.call.case \in {"connect fails", "execute fails"} =>
               IsPrefix(SqlErrorPrefix, server.call.value)

\* The position of the first assistant turn of `msgs` after position k, or
\* Len(msgs) + 1 when there is none.
NextAssistant(msgs, k) ==
    LET later == { j \in (k + 1)..Len(msgs) : msgs[j].role = "assistant" }
    IN  IF later = {} THEN Len(msgs) + 1
        ELSE CHOOSE j \in later : \A i \in later : j <= i

\* In `msgs` every tool_use of an assistant turn has a tool_result with its
\* id after that turn and before the next assistant turn.
AllAnswered(msgs) ==
    \A k \in 1..Len(msgs) :
        msgs[k].role = "assistant" =>
            \A u \in 1..Len(msgs[k].content) :
                msgs[k].content[u].type = "tool_use" =>
                    \E j \in (k + 1)..(NextAssistant(msgs, k) - 1) :
                        \E c \in 1..Len(msgs[j].content) :
                            /\ msgs[j].content[c].type = "tool_result"
                            /\ msgs[j].content[c].tool_use_id = msgs[k].content[u].id

\* C19: no message list sent to the model holds an unanswered tool_use.
C19_NoUnansweredToolUseSent ==
    \A r \in Runs : AllAnswered(obs[r].sent)

\* C20: in the Streamlit client no step changes the stored history, and the
\* first model call of a run is sent the stored history followed by the one
\* new user turn.
C20_StoredHistoryUnchanged ==
    [][/\ stored' = stored
       /\ \A r \in Runs :
              (program = "client" /\ obs[r].ncalls = 0 /\ obs'[r].ncalls = 1) =>
                  obs'[r].sent = stored \o <<UserTurn(r, run[r].query)>>]_vars

\* The client has served a query that was answered after a failed tool call
\* and a query that ended with a hard failure.
C20_Witness ==
    /\ program = "client"
    /\ \E r, s \in Runs :
           /\ Answered(r)
           /\ run[r].errors # <<>>
           /\ run[s].pc = "done"
           /\ obs[s].outcome = "error"
    /\ stored = <<>>

====
